---- MODULE Spec2Model ----
(***************************************************************************)
(* A model of context_aware_engine.py: the fuzzy primitives, the weather   *)
(* and time vectorizers, ContextBuilder.build and SuggestionEngine.        *)
(*                                                                         *)
(* Numbers.  The program computes with Python floats.  The model computes  *)
(* with exact rationals <<n, d>> (d > 0, lowest terms), so every           *)
(* comparison against a threshold (0.1, 0.5, -9.0, ...) is decided as      *)
(* real arithmetic decides it; rounding of the last binary digit is not    *)
(* modelled.                                                               *)
(*                                                                         *)
(* Feature identifiers.  A feature identifier such as "temp_extreme_cold"  *)
(* is the sequence of its underscore-separated words,                      *)
(* <<"temp", "extreme", "cold">>, so that str.startswith(group + "_") is   *)
(* computed from the identifier and not assumed.                           *)
(***************************************************************************)
EXTENDS Integers, Sequences, FiniteSets, TLC

VARIABLES
    pc,               \* the caller's position: "fetch", "build", "load",
                      \* then "scored" (score returned) or "done"
    prim,             \* the last call of a fuzzy primitive: arguments and result
    vec,              \* the last call of a vectorizer: argument and result
    weather_data,     \* main: the observation record handed to build
    clock,            \* main / build: current_hour, month and weekday of "now"
    context,          \* main: the context vector handed to the scorer
    suggestions,      \* SuggestionEngine.suggestions
    scored_items,     \* the value score returned
    top_n,            \* the top_n get_top_by_subcategory was called with
    results           \* the value get_top_by_subcategory returned

vars == <<pc, prim, vec, weather_data, clock, context, suggestions,
          scored_items, top_n, results>>

----------------------------------------------------------------------------
(* Exact rational arithmetic, standing for Python's float operations.      *)

RECURSIVE GCD(_, _)
GCD(a, b) == IF b = 0 THEN a ELSE GCD(b, a % b)

IAbs(n) == IF n < 0 THEN -n ELSE n

\* The rational n/d (d > 0) in lowest terms.
R(n, d) == LET g == GCD(IAbs(n), d) IN <<n \div g, d \div g>>

\* An integer literal as a rational.
I(n) == <<n, 1>>

RAdd(a, b) == R(a[1] * b[2] + b[1] * a[2], a[2] * b[2])
RSub(a, b) == R(a[1] * b[2] - b[1] * a[2], a[2] * b[2])
RMul(a, b) == R(a[1] * b[1], a[2] * b[2])
\* a / b for b # 0
RDiv(a, b) == IF b[1] > 0 THEN R(a[1] * b[2], a[2] * b[1])
                          ELSE R(-(a[1] * b[2]), -(a[2] * b[1]))
RLe(a, b) == a[1] * b[2] <= b[1] * a[2]
RLt(a, b) == a[1] * b[2] < b[1] * a[2]
RAbs(a) == <<IAbs(a[1]), a[2]>>
RMax(a, b) == IF RLe(b, a) THEN a ELSE b
RMin(a, b) == IF RLe(a, b) THEN a ELSE b

Zero == I(0)
One == I(1)

----------------------------------------------------------------------------
(* 2. Helper functions (fuzzy logic)                                       *)

\* fuzzy_membership without the clamp to [0,1]
fuzzy_membership_unclamped(value, center, width) ==
    RSub(One, RDiv(RAbs(RSub(value, center)), width))

fuzzy_membership(value, center, width) ==
    LET distance == RAbs(RSub(value, center))
    IN RMax(Zero, RMin(One, RSub(One, RDiv(distance, width))))

\* factor=0.7, the default every caller uses
DefaultFactor == R(7, 10)

add_with_diminishing(current, increment) ==
    LET cur == RMax(Zero, RMin(One, current))
        headroom == RSub(One, cur)
    IN RAdd(cur, RMul(RMul(increment, headroom), DefaultFactor))

subtract_with_diminishing(current, decrement) ==
    LET cur == RMax(Zero, RMin(One, current))
    IN RSub(cur, RMul(RMul(decrement, cur), DefaultFactor))

----------------------------------------------------------------------------
(* 1. Feature definitions and weights                                      *)

\* GROUP_WEIGHTS, in the dict's iteration (insertion) order.
GROUP_WEIGHTS == <<
    <<"temp", R(10, 10)>>,
    <<"weather", R(9, 10)>>,
    <<"social", R(9, 10)>>,
    <<"mood", R(9, 10)>>,
    <<"time", R(8, 10)>>,
    <<"location", R(8, 10)>>,
    <<"events", R(7, 10)>>,
    <<"humidity", R(6, 10)>>,
    <<"wind", R(6, 10)>>,
    <<"season", R(5, 10)>>,
    <<"energy", R(5, 10)>> >>

FEATURE_NAMES == <<
    <<"temp", "extreme", "cold">>, <<"temp", "cold">>, <<"temp", "cool">>,
    <<"temp", "warm">>, <<"temp", "hot">>,
    <<"weather", "clear">>, <<"weather", "partly", "cloudy">>,
    <<"weather", "cloudy">>, <<"weather", "fog">>,
    <<"weather", "drizzle">>, <<"weather", "rain">>,
    <<"weather", "rain", "shower">>, <<"weather", "snow">>,
    <<"weather", "snow", "shower">>, <<"weather", "thunderstorm">>,
    <<"humidity", "very", "dry">>, <<"humidity", "dry">>,
    <<"humidity", "comfortable">>,
    <<"humidity", "humid">>, <<"humidity", "very", "humid">>,
    <<"wind", "calm">>, <<"wind", "breeze">>, <<"wind", "windy">>,
    <<"wind", "strong">>, <<"wind", "storm">>,
    <<"time", "late", "night">>, <<"time", "early", "morning">>,
    <<"time", "morning">>,
    <<"time", "afternoon">>, <<"time", "evening">>, <<"time", "night">>,
    <<"day", "weekend">>, <<"day", "holiday">>, <<"day", "holiday", "eve">>,
    <<"day", "workday">>,
    <<"season", "spring">>, <<"season", "summer">>, <<"season", "autumn">>,
    <<"season", "winter">>,
    <<"romantic", "event">>, <<"national", "festival">>,
    <<"national", "mourning">>, <<"cultural", "tradition">>,
    <<"social", "solo">>, <<"social", "couple">>, <<"social", "family">>,
    <<"social", "friends">>, <<"social", "group">>,
    <<"mood", "calm">>, <<"mood", "energetic">>, <<"mood", "happy">>,
    <<"mood", "sad">>, <<"mood", "thoughtful">>,
    <<"mood", "romantic">>, <<"mood", "nostalgic">>, <<"mood", "stressed">>,
    <<"mood", "relaxed">>,
    <<"location", "indoor">>, <<"location", "outdoor">>, <<"location", "home">>,
    <<"energy", "very", "low">>, <<"energy", "low">>, <<"energy", "medium">>,
    <<"energy", "high">>, <<"energy", "very", "high">> >>

\* name.startswith(word + "_") for a word without underscores: the
\* identifier's first word is that word and another word follows it.
startswith(name, word) == Len(name) >= 2 /\ name[1] = word

\* [k for k in FEATURE_NAMES if k.startswith(word + "_")], as a set of keys
FeaturesOfPrefix(word) ==
    {FEATURE_NAMES[i] : i \in {j \in DOMAIN FEATURE_NAMES :
                                  startswith(FEATURE_NAMES[j], word)}}

\* dict.update(other): the keys of other are added, and overwrite
update(d, other) == other @@ d

\* d[key] = val
setitem(d, key, val) == update(d, key :> val)

\* d.get(key, default)
get(d, key, default) == IF key \in DOMAIN d THEN d[key] ELSE default

\* the empty dict
EmptyDict == [k \in {} |-> Zero]

----------------------------------------------------------------------------
(* 3. Vectorizers                                                          *)

vectorize_code(code) ==
    LET features == [k \in FeaturesOfPrefix("weather") |-> Zero]
    IN IF code = 0 THEN setitem(features, <<"weather", "clear">>, One)
       ELSE IF code = 1 THEN
           setitem(setitem(features, <<"weather", "clear">>, R(8, 10)),
                   <<"weather", "partly", "cloudy">>, R(2, 10))
       ELSE IF code = 2 THEN setitem(features, <<"weather", "partly", "cloudy">>, One)
       ELSE IF code = 3 THEN setitem(features, <<"weather", "cloudy">>, One)
       ELSE IF code \in {45, 48} THEN setitem(features, <<"weather", "fog">>, One)
       ELSE IF code \in {51, 56} THEN setitem(features, <<"weather", "drizzle">>, R(6, 10))
       ELSE IF code = 53 THEN setitem(features, <<"weather", "drizzle">>, R(8, 10))
       ELSE IF code \in {55, 57} THEN setitem(features, <<"weather", "drizzle">>, One)
       ELSE IF code \in {61, 66} THEN setitem(features, <<"weather", "rain">>, R(6, 10))
       ELSE IF code = 63 THEN setitem(features, <<"weather", "rain">>, R(8, 10))
       ELSE IF code \in {65, 67} THEN setitem(features, <<"weather", "rain">>, One)
       ELSE IF code = 71 THEN setitem(features, <<"weather", "snow">>, R(6, 10))
       ELSE IF code = 73 THEN setitem(features, <<"weather", "snow">>, R(8, 10))
       ELSE IF code \in {75, 77} THEN setitem(features, <<"weather", "snow">>, One)
       ELSE IF code = 80 THEN setitem(features, <<"weather", "rain", "shower">>, R(6, 10))
       ELSE IF code = 81 THEN setitem(features, <<"weather", "rain", "shower">>, R(8, 10))
       ELSE IF code = 82 THEN setitem(features, <<"weather", "rain", "shower">>, One)
       ELSE IF code = 85 THEN setitem(features, <<"weather", "snow", "shower">>, R(7, 10))
       ELSE IF code = 86 THEN setitem(features, <<"weather", "snow", "shower">>, One)
       ELSE IF code \in {95, 96, 99} THEN
           setitem(features, <<"weather", "thunderstorm">>, One)
       ELSE setitem(features, <<"weather", "clear">>, R(5, 10))

\* effective = 0.7 * feels_like_c + 0.3 * temp_c
effective_temp(temp_c, feels_like_c) ==
    RAdd(RMul(R(7, 10), feels_like_c), RMul(R(3, 10), temp_c))

\* temp_norm with the span of the range taken as 40 instead of 50
temp_norm_span40(effective) ==
    RMax(Zero, RMin(One, RDiv(RAdd(effective, I(10)), I(40))))

\* norm = clamp((effective + 10) / 50.0, 0.0, 1.0)
temp_norm(effective) ==
    RMax(Zero, RMin(One, RDiv(RAdd(effective, I(10)), I(50))))

vectorize_temp(temp_c, feels_like_c) ==
    LET norm == temp_norm(effective_temp(temp_c, feels_like_c))
    IN (<<"temp", "extreme", "cold">> :> fuzzy_membership(norm, Zero, R(2, 10)))
       @@ (<<"temp", "cold">> :> fuzzy_membership(norm, R(2, 10), R(2, 10)))
       @@ (<<"temp", "cool">> :> fuzzy_membership(norm, R(45, 100), R(2, 10)))
       @@ (<<"temp", "warm">> :> fuzzy_membership(norm, R(7, 10), R(2, 10)))
       @@ (<<"temp", "hot">> :> fuzzy_membership(norm, R(9, 10), R(2, 10)))

vectorize_humidity(humidity_percent) ==
    LET norm == RDiv(humidity_percent, I(100))
    IN (<<"humidity", "very", "dry">> :> fuzzy_membership(norm, R(10, 100), R(25, 100)))
       @@ (<<"humidity", "dry">> :> fuzzy_membership(norm, R(25, 100), R(25, 100)))
       @@ (<<"humidity", "comfortable">> :> fuzzy_membership(norm, R(45, 100), R(25, 100)))
       @@ (<<"humidity", "humid">> :> fuzzy_membership(norm, R(65, 100), R(25, 100)))
       @@ (<<"humidity", "very", "humid">> :> fuzzy_membership(norm, R(85, 100), R(25, 100)))

vectorize_wind(speed_kmh) ==
    LET norm == RMin(One, RDiv(speed_kmh, I(60)))
    IN (<<"wind", "calm">> :> fuzzy_membership(norm, Zero, R(25, 100)))
       @@ (<<"wind", "breeze">> :> fuzzy_membership(norm, R(20, 100), R(25, 100)))
       @@ (<<"wind", "windy">> :> fuzzy_membership(norm, R(45, 100), R(25, 100)))
       @@ (<<"wind", "strong">> :> fuzzy_membership(norm, R(70, 100), R(25, 100)))
       @@ (<<"wind", "storm">> :> fuzzy_membership(norm, R(90, 100), R(25, 100)))

\* circular_dist without the wrap around midnight
circular_dist_no_wrap(h1, h2) == RDiv(RAbs(RSub(h1, h2)), I(12))

circular_dist(h1, h2) ==
    LET d == RAbs(RSub(h1, h2))
    IN RDiv(RMin(d, RSub(I(24), d)), I(12))

time_membership(h, center) ==
    LET dist == circular_dist(h, center)
    IN RMax(Zero, RMin(One, RSub(One, RDiv(dist, R(15, 100)))))

\* TimeVectorizer.vectorize
vectorize(hour) ==
    (<<"time", "late", "night">> :> time_membership(hour, I(0)))
    @@ (<<"time", "early", "morning">> :> time_membership(hour, I(5)))
    @@ (<<"time", "morning">> :> time_membership(hour, I(9)))
    @@ (<<"time", "afternoon">> :> time_membership(hour, I(14)))
    @@ (<<"time", "evening">> :> time_membership(hour, I(19)))
    @@ (<<"time", "night">> :> time_membership(hour, I(22)))

----------------------------------------------------------------------------
(* 4. Context builder                                                      *)

infer_mood(w, t) ==
    LET m0 == [k \in FeaturesOfPrefix("mood") |-> R(1, 10)]
        m1 == setitem(m0, <<"mood", "calm">>, R(2, 10))
        m2 == setitem(m1, <<"mood", "happy">>, R(3, 10))
        m3 == IF RLt(R(5, 10), w[<<"weather", "rain">>])
              THEN LET a == setitem(m2, <<"mood", "calm">>,
                          add_with_diminishing(m2[<<"mood", "calm">>], R(3, 10)))
                   IN setitem(a, <<"mood", "thoughtful">>,
                          add_with_diminishing(a[<<"mood", "thoughtful">>], R(3, 10)))
              ELSE m2
        m4 == IF RLt(R(7, 10), w[<<"weather", "clear">>])
              THEN LET a == setitem(m3, <<"mood", "happy">>,
                          add_with_diminishing(m3[<<"mood", "happy">>], R(4, 10)))
                   IN setitem(a, <<"mood", "energetic">>,
                          add_with_diminishing(a[<<"mood", "energetic">>], R(3, 10)))
              ELSE m3
        m5 == IF RLt(R(5, 10), t[<<"time", "late", "night">>])
              THEN LET a == setitem(m4, <<"mood", "calm">>,
                          add_with_diminishing(m4[<<"mood", "calm">>], R(4, 10)))
                   IN setitem(a, <<"mood", "thoughtful">>,
                          add_with_diminishing(a[<<"mood", "thoughtful">>], R(3, 10)))
              ELSE m4
    IN m5

infer_social(t, is_weekend) ==
    LET s0 == [k \in FeaturesOfPrefix("social") |-> R(1, 10)]
        s1 == setitem(s0, <<"social", "solo">>, R(3, 10))
        s2 == IF is_weekend # Zero
              THEN LET a == setitem(s1, <<"social", "family">>,
                          add_with_diminishing(s1[<<"social", "family">>], R(4, 10)))
                   IN setitem(a, <<"social", "friends">>,
                          add_with_diminishing(a[<<"social", "friends">>], R(3, 10)))
              ELSE s1
        s3 == IF RLt(R(5, 10), t[<<"time", "evening">>])
              THEN setitem(s2, <<"social", "family">>,
                       add_with_diminishing(s2[<<"social", "family">>], R(2, 10)))
              ELSE s2
    IN s3

\* infer_location with the good-weather branch testing wind_calm alone
infer_location_calm_only(w, wind) ==
    LET l0 == (<<"location", "indoor">> :> R(5, 10))
              @@ (<<"location", "outdoor">> :> R(5, 10))
              @@ (<<"location", "home">> :> R(3, 10))
        bad_weather == RMax(RMax(w[<<"weather", "rain">>], w[<<"weather", "snow">>]),
                            w[<<"weather", "thunderstorm">>])
        l1 == IF RLt(R(5, 10), bad_weather)
              THEN LET a == setitem(l0, <<"location", "indoor">>,
                          add_with_diminishing(l0[<<"location", "indoor">>], R(5, 10)))
                       b == setitem(a, <<"location", "outdoor">>,
                          subtract_with_diminishing(a[<<"location", "outdoor">>], R(5, 10)))
                   IN setitem(b, <<"location", "home">>,
                          add_with_diminishing(b[<<"location", "home">>], R(4, 10)))
              ELSE l0
        l2 == IF RLt(R(5, 10), wind[<<"wind", "calm">>])
              THEN setitem(l1, <<"location", "outdoor">>,
                       add_with_diminishing(l1[<<"location", "outdoor">>], R(4, 10)))
              ELSE l1
    IN l2

infer_location(w, wind) ==
    LET l0 == (<<"location", "indoor">> :> R(5, 10))
              @@ (<<"location", "outdoor">> :> R(5, 10))
              @@ (<<"location", "home">> :> R(3, 10))
        bad_weather == RMax(RMax(w[<<"weather", "rain">>], w[<<"weather", "snow">>]),
                            w[<<"weather", "thunderstorm">>])
        l1 == IF RLt(R(5, 10), bad_weather)
              THEN LET a == setitem(l0, <<"location", "indoor">>,
                          add_with_diminishing(l0[<<"location", "indoor">>], R(5, 10)))
                       b == setitem(a, <<"location", "outdoor">>,
                          subtract_with_diminishing(a[<<"location", "outdoor">>], R(5, 10)))
                   IN setitem(b, <<"location", "home">>,
                          add_with_diminishing(b[<<"location", "home">>], R(4, 10)))
              ELSE l0
        l2 == IF RLt(R(7, 10), w[<<"weather", "clear">>])
                 /\ RLt(R(5, 10), wind[<<"wind", "calm">>])
              THEN setitem(l1, <<"location", "outdoor">>,
                       add_with_diminishing(l1[<<"location", "outdoor">>], R(4, 10)))
              ELSE l1
    IN l2

\* infer_energy with its baseline built over the mood features
infer_energy_mood_keys(t, w) ==
    LET e0 == [k \in FeaturesOfPrefix("mood") |-> R(2, 10)]
        e1 == IF RLt(R(5, 10), t[<<"time", "morning">>])
              THEN setitem(e0, <<"energy", "high">>,
                       add_with_diminishing(get(e0, <<"energy", "high">>, Zero), R(4, 10)))
              ELSE e0
    IN e1

infer_energy(t, w) ==
    LET e0 == [k \in FeaturesOfPrefix("energy") |-> R(2, 10)]
        e1 == IF RLt(R(5, 10), t[<<"time", "morning">>])
              THEN setitem(e0, <<"energy", "high">>,
                       add_with_diminishing(e0[<<"energy", "high">>], R(4, 10)))
              ELSE e0
        e2 == IF RLt(R(5, 10), t[<<"time", "late", "night">>])
              THEN setitem(e1, <<"energy", "very", "low">>,
                       add_with_diminishing(e1[<<"energy", "very", "low">>], R(6, 10)))
              ELSE e1
    IN e2

\* season_f of build, from datetime.now().month
season_features(month) ==
    (<<"season", "spring">> :> IF 3 <= month /\ month <= 5 THEN One ELSE Zero)
    @@ (<<"season", "summer">> :> IF 6 <= month /\ month <= 8 THEN One ELSE Zero)
    @@ (<<"season", "autumn">> :> IF 9 <= month /\ month <= 11 THEN One ELSE Zero)
    @@ (<<"season", "winter">> :> IF month = 12 \/ month <= 2 THEN One ELSE Zero)

\* is_weekend of build, from datetime.now().weekday() (0 = Monday)
is_weekend_of(weekday) == IF weekday = 4 THEN One ELSE Zero

\* day_f of build
day_features(is_weekend) ==
    (<<"day", "weekend">> :> is_weekend)
    @@ (<<"day", "holiday">> :> Zero)
    @@ (<<"day", "holiday", "eve">> :> Zero)
    @@ (<<"day", "workday">> :> IF is_weekend = Zero THEN One ELSE Zero)

\* event_f of build
event_features ==
    (<<"romantic", "event">> :> Zero)
    @@ (<<"national", "festival">> :> Zero)
    @@ (<<"national", "mourning">> :> Zero)
    @@ (<<"cultural", "tradition">> :> Zero)

\* The twelve partial maps of build, in the order build merges them.
\* wd is weather_data['current']; ck is <<current_hour, month, weekday>>.
partial_maps(wd, ck) ==
    LET temp_f == vectorize_temp(wd.temperature_2m, wd.apparent_temperature)
        weather_f == vectorize_code(wd.weather_code)
        humidity_f == vectorize_humidity(wd.relative_humidity_2m)
        wind_f == vectorize_wind(wd.wind_speed_10m)
        time_f == vectorize(ck.current_hour)
        season_f == season_features(ck.month)
        is_weekend == is_weekend_of(ck.weekday)
        day_f == day_features(is_weekend)
        event_f == event_features
        mood_f == infer_mood(weather_f, time_f)
        social_f == infer_social(time_f, is_weekend)
        location_f == infer_location(weather_f, wind_f)
        energy_f == infer_energy(time_f, weather_f)
    IN <<temp_f, weather_f, humidity_f, wind_f, time_f, day_f, season_f,
         event_f, mood_f, social_f, location_f, energy_f>>

\* context = {}; context.update(temp_f); ...; context.update(energy_f)
RECURSIVE merge_all(_, _)
merge_all(ctx, maps) ==
    IF maps = <<>> THEN ctx
    ELSE merge_all(update(ctx, Head(maps)), Tail(maps))

\* ContextBuilder.build
build(wd, ck) == merge_all(EmptyDict, partial_maps(wd, ck))

----------------------------------------------------------------------------
(* 5. Data loader and scorer                                               *)
(* A suggestion is a dict (a function on a subset of the keys "text",      *)
(* "category", "subcategory", "preferencesJson").  A file is a record      *)
(* [json |-> its name ends with ".json", parse |-> "list", "dict" or      *)
(* "error", data |-> the list json.load returns].                          *)

\* load_data: the suggestions after the walk over the files of root_dir
RECURSIVE load_files(_, _)
load_files(loaded, files) ==
    IF files = <<>> THEN loaded
    ELSE LET file == Head(files)
         IN IF file.json /\ file.parse = "list"
            THEN load_files(loaded \o file.data, Tail(files))
            ELSE load_files(loaded, Tail(files))

\* the veto check with val < -9.0 for val <= -9.0
is_vetoed_strict(prefs, ctx) ==
    \E key \in DOMAIN prefs :
        RLt(prefs[key], I(-9)) /\ RLt(R(1, 10), get(ctx, key, Zero))

\* the veto check of score: some entry vetoes
is_vetoed(prefs, ctx) ==
    \E key \in DOMAIN prefs :
        RLe(prefs[key], I(-9)) /\ RLt(R(1, 10), get(ctx, key, Zero))

\* weight = 0.5; for group, w in GROUP_WEIGHTS.items(): first match wins
group_weight(feat_name) ==
    LET matches == {i \in DOMAIN GROUP_WEIGHTS :
                        startswith(feat_name, GROUP_WEIGHTS[i][1])}
    IN IF matches = {} THEN R(5, 10)
       ELSE GROUP_WEIGHTS[CHOOSE i \in matches : \A j \in matches : i <= j][2]

\* score_entry without the skip of activations <= 0.0
score_entry_no_skip(total, feat_name, feat_val, ctx) ==
    IF feat_name \notin DOMAIN ctx THEN total
    ELSE RAdd(total, RMul(group_weight(feat_name), RMul(feat_val, ctx[feat_name])))

\* one pass of the dot-product loop body for feat_name, added to total
score_entry(total, feat_name, feat_val, ctx) ==
    IF feat_name \notin DOMAIN ctx THEN total
    ELSE IF RLe(ctx[feat_name], Zero) THEN total
    ELSE RAdd(total, RMul(group_weight(feat_name), RMul(feat_val, ctx[feat_name])))

\* the dot-product loop over the entries keys of prefs
RECURSIVE score_loop(_, _, _, _)
score_loop(total, keys, prefs, ctx) ==
    IF keys = {} THEN total
    ELSE LET k == CHOOSE x \in keys : TRUE
         IN score_loop(score_entry(total, k, prefs[k], ctx), keys \ {k}, prefs, ctx)

total_score(item, ctx) ==
    LET prefs == get(item, "preferencesJson", EmptyDict)
    IN score_loop(Zero, DOMAIN prefs, prefs, ctx)

\* the insertion of an ascending sort (reverse=True forgotten)
RECURSIVE insert_asc(_, _)
insert_asc(sorted, x) ==
    IF sorted = <<>> THEN <<x>>
    ELSE IF RLt(x[1], Head(sorted)[1]) THEN <<x>> \o sorted
    ELSE <<Head(sorted)>> \o insert_asc(Tail(sorted), x)

\* list.sort(key=lambda x: x[0], reverse=True): stable, descending
RECURSIVE insert_desc(_, _)
insert_desc(sorted, x) ==
    IF sorted = <<>> THEN <<x>>
    ELSE IF RLt(Head(sorted)[1], x[1]) THEN <<x>> \o sorted
    ELSE <<Head(sorted)>> \o insert_desc(Tail(sorted), x)

RECURSIVE sort_desc_from(_, _)
sort_desc_from(sorted, rest) ==
    IF rest = <<>> THEN sorted
    ELSE sort_desc_from(insert_desc(sorted, Head(rest)), Tail(rest))

sort_desc(items) == sort_desc_from(<<>>, items)

\* the loop of score over self.suggestions: (total_score, item) of the kept
RECURSIVE score_items(_, _)
score_items(items, ctx) ==
    IF items = <<>> THEN <<>>
    ELSE LET item == Head(items)
             rest == score_items(Tail(items), ctx)
         IN IF is_vetoed(get(item, "preferencesJson", EmptyDict), ctx) THEN rest
            ELSE <<<<total_score(item, ctx), item>>>> \o rest

\* SuggestionEngine.score
score(items, ctx) == sort_desc(score_items(items, ctx))

\* key = f"{cat} > {sub}"
group_key(item) ==
    get(item, "category", "Unknown") \o " > " \o get(item, "subcategory", "Unknown")

\* items[:n]
slice_to(items, n) ==
    LET stop == IF n >= 0 THEN (IF n < Len(items) THEN n ELSE Len(items))
                ELSE (IF Len(items) + n > 0 THEN Len(items) + n ELSE 0)
    IN SubSeq(items, 1, stop)

\* grouped[key] of get_top_by_subcategory: the scored items of the key, in order
grouped_of(scored, key) == SelectSeq(scored, LAMBDA p : group_key(p[2]) = key)

\* SuggestionEngine.get_top_by_subcategory, from the scored items
top_by_subcategory(scored, n) ==
    [key \in {group_key(scored[i][2]) : i \in DOMAIN scored} |->
        slice_to(sort_desc(grouped_of(scored, key)), n)]

----------------------------------------------------------------------------
(* Inputs of the model                                                     *)

\* The fuzzy primitives are called on current = k/GridDen, from two steps
\* below 0 to two steps above 1, and on an amount k/GridDen up to
\* MaxAmount/GridDen.
GridDen == 10
MaxAmount == 20
Currents == {R(k, GridDen) : k \in (0 - 2)..(GridDen + 2)}
Amounts == {R(k, GridDen) : k \in 0..MaxAmount}

\* Temperatures in steps of 5 C, from -20 C up
TempSteps == 14
Temperatures == {I(5 * k - 20) : k \in 0..TempSteps}

\* Hours k/HourDen, 0 <= hour <= 24
HourDen == 10
Hours == {R(k, HourDen) : k \in 0..(24 * HourDen)}

\* The record main uses when fetch_weather fails
DummyWeather ==
    [temperature_2m |-> I(20), apparent_temperature |-> I(20),
     relative_humidity_2m |-> I(50), weather_code |-> 0,
     wind_speed_10m |-> I(5)]

\* Every code of the table of vectorize_code, and some it does not list
WeatherCodes == {0, 1, 2, 3, 45, 48, 51, 53, 55, 56, 57, 61, 63, 65, 66, 67,
                 71, 73, 75, 77, 80, 81, 82, 85, 86, 95, 96, 99, 4, 1000}

\* weather_data['current'] as the API may return it, values outside the
\* ranges the vectorizers normalize (-10..40 C, 0..100 %, 0..60 km/h)
\* included
Observations ==
    [temperature_2m : {I(0 - 60), I(20), I(38)},
     apparent_temperature : {I(0 - 40), I(20), I(70)},
     relative_humidity_2m : {I(0 - 10), I(120)},
     weather_code : WeatherCodes,
     wind_speed_10m : {I(0 - 5), I(5), I(200)}]

\* datetime.now(): the hour of day, and a month and weekday (0 = Monday)
\* of each season, the weekend day among them
Clocks ==
    {[current_hour |-> h, month |-> d[1], weekday |-> d[2]] :
        h \in {R(1, 2), I(9), I(14), I(19), R(239, 10)},
        d \in {<<1, 3>>, <<4, 0>>, <<7, 4>>, <<10, 6>>}}

NoPrim == [fn |-> "none", current |-> Zero, amount |-> Zero, result |-> Zero]
NoVec == [fn |-> "none", arg |-> <<>>, result |-> EmptyDict]
NoClock == [current_hour |-> Zero, month |-> 1, weekday |-> 0]

\* The state of a fresh process: nothing called, SuggestionEngine() built
InitState ==
    /\ pc = "fetch"
    /\ prim = NoPrim
    /\ vec = NoVec
    /\ weather_data = DummyWeather
    /\ clock = NoClock
    /\ context = EmptyDict
    /\ suggestions = <<>>
    /\ scored_items = <<>>
    /\ top_n = 0
    /\ results = EmptyDict

----------------------------------------------------------------------------
(* The fuzzy primitives, called on their own                               *)

AddWithDiminishing(c, inc) ==
    /\ prim' = [fn |-> "add_with_diminishing", current |-> c, amount |-> inc,
                result |-> add_with_diminishing(c, inc)]
    /\ UNCHANGED <<pc, vec, weather_data, clock, context, suggestions,
                   scored_items, top_n, results>>

SubtractWithDiminishing(c, dec) ==
    /\ prim' = [fn |-> "subtract_with_diminishing", current |-> c, amount |-> dec,
                result |-> subtract_with_diminishing(c, dec)]
    /\ UNCHANGED <<pc, vec, weather_data, clock, context, suggestions,
                   scored_items, top_n, results>>

NextFuzzy ==
    \/ \E c \in Currents, inc \in Amounts : AddWithDiminishing(c, inc)
    \/ \E c \in Currents, dec \in Amounts : SubtractWithDiminishing(c, dec)

SpecFuzzy == InitState /\ [][NextFuzzy]_vars

----------------------------------------------------------------------------
(* The vectorizers, called on their own                                    *)

VectorizeTemp(temp_c, feels_like_c) ==
    /\ vec' = [fn |-> "vectorize_temp", arg |-> <<temp_c, feels_like_c>>,
               result |-> vectorize_temp(temp_c, feels_like_c)]
    /\ UNCHANGED <<pc, prim, weather_data, clock, context, suggestions,
                   scored_items, top_n, results>>

VectorizeTime(hour) ==
    /\ vec' = [fn |-> "vectorize", arg |-> <<hour>>, result |-> vectorize(hour)]
    /\ UNCHANGED <<pc, prim, weather_data, clock, context, suggestions,
                   scored_items, top_n, results>>

NextVectorize ==
    \/ \E t \in Temperatures, f \in Temperatures : VectorizeTemp(t, f)
    \/ \E h \in Hours : VectorizeTime(h)

SpecVectorize == InitState /\ [][NextVectorize]_vars

----------------------------------------------------------------------------
(* main, up to the context vector: fetch_weather, then build               *)

\* weather_data = fetch_weather(); the dummy record when it returns None
FetchWeather(response) ==
    /\ pc = "fetch"
    /\ pc' = "build"
    /\ weather_data' = IF response.ok THEN response.current ELSE DummyWeather
    /\ UNCHANGED <<prim, vec, clock, context, suggestions,
                   scored_items, top_n, results>>

\* context = builder.build(weather_data, current_hour)
Build(ck) ==
    /\ pc = "build"
    /\ pc' = "load"
    /\ clock' = ck
    /\ context' = build(weather_data, ck)
    /\ UNCHANGED <<prim, vec, weather_data, suggestions,
                   scored_items, top_n, results>>

NextBuild ==
    \/ \E response \in [ok : {TRUE}, current : Observations]
                       \cup [ok : {FALSE}, current : {DummyWeather}] :
           FetchWeather(response)
    \/ \E ck \in Clocks : Build(ck)

SpecBuild == InitState /\ [][NextBuild]_vars

----------------------------------------------------------------------------
(* SuggestionEngine: load_data, score, get_top_by_subcategory              *)

FRain == <<"weather", "rain">>
FHot == <<"temp", "hot">>
FEvent == <<"romantic", "event">>
FWeekend == <<"day", "weekend">>
FCustom == <<"custom", "flag">>

\* Suggestions as the corpus files may hold them
ItemVetoOnly ==
    [text |-> "walk", category |-> "A", subcategory |-> "B",
     preferencesJson |-> (FRain :> I(0 - 10))]
ItemVetoEdge ==
    [text |-> "picnic", category |-> "A", subcategory |-> "B",
     preferencesJson |-> (FRain :> I(0 - 9)) @@ (FHot :> I(5))]
ItemNearVeto ==
    [text |-> "cycling", category |-> "A", subcategory |-> "B",
     preferencesJson |-> (FRain :> R(0 - 89, 10)) @@ (FHot :> I(2))]
ItemEvent ==
    [text |-> "dinner", category |-> "A", subcategory |-> "B",
     preferencesJson |-> (FHot :> I(3)) @@ (FEvent :> I(2)) @@ (FWeekend :> I(1))]
ItemHot ==
    [text |-> "swim", category |-> "A", subcategory |-> "B",
     preferencesJson |-> (FHot :> I(4))]
ItemCustom ==
    [text |-> "tea", category |-> "A",
     preferencesJson |-> (FHot :> I(0 - 1)) @@ (FCustom :> I(4))]
ItemBare == [text |-> "nap"]
ItemOther ==
    [text |-> "museum", category |-> "A", subcategory |-> "C",
     preferencesJson |-> (FRain :> I(1)) @@ (FHot :> I(0 - 2))]

\* Files of the data directory: lists of suggestions, a JSON object, a file
\* json.load fails on, and a file whose name does not end with ".json"
FileAB == [json |-> TRUE, parse |-> "list",
           data |-> <<ItemVetoOnly, ItemVetoEdge, ItemNearVeto>>]
FileHot == [json |-> TRUE, parse |-> "list", data |-> <<ItemEvent, ItemHot>>]
FileDict == [json |-> TRUE, parse |-> "dict", data |-> <<ItemHot>>]
FileBroken == [json |-> TRUE, parse |-> "error", data |-> <<>>]
FileText == [json |-> FALSE, parse |-> "list", data |-> <<ItemHot>>]
Files ==
    {FileAB, FileHot, FileDict, FileBroken, FileText}
    \cup {[json |-> TRUE, parse |-> "list", data |-> <<item>>] :
             item \in {ItemCustom, ItemBare, ItemOther}}

\* The files os.walk finds under root_dir, in its order
Directories ==
    {<<>>} \cup {<<file>> : file \in Files}
    \cup {<<FileAB, FileBroken, FileHot>>, <<FileText, FileDict, FileHot>>}

\* Context vectors handed to the scorer: partial ones, with activations at
\* the veto threshold, at zero and below zero, and the one build returns
\* for the dummy record at 14:00
ScoreContexts ==
    { (FRain :> R(8, 10)) @@ (FHot :> Zero) @@ (FEvent :> R(5, 10)),
      (FRain :> R(1, 10)) @@ (FHot :> One),
      (FRain :> R(11, 100)) @@ (FHot :> R(0 - 2, 10)) @@ (FWeekend :> One),
      EmptyDict,
      build(DummyWeather, [current_hour |-> I(14), month |-> 7, weekday |-> 4]) }

\* The suggestions list is kept to MaxCorpus entries, top_n to MaxTopN
MaxCorpus == 5
MaxTopN == 3

\* The scorer on its own: a context vector is at hand, nothing is loaded
InitScore ==
    /\ pc = "load"
    /\ prim = NoPrim
    /\ vec = NoVec
    /\ weather_data = DummyWeather
    /\ clock = NoClock
    /\ context \in ScoreContexts
    /\ suggestions = <<>>
    /\ scored_items = <<>>
    /\ top_n = 0
    /\ results = EmptyDict

\* engine.load_data(root_dir)
LoadData(files) ==
    /\ pc = "load"
    /\ Len(load_files(suggestions, files)) <= MaxCorpus
    /\ suggestions' = load_files(suggestions, files)
    /\ UNCHANGED <<pc, prim, vec, weather_data, clock, context,
                   scored_items, top_n, results>>

\* engine.score(context)
Score ==
    /\ pc = "load"
    /\ pc' = "scored"
    /\ scored_items' = score(suggestions, context)
    /\ UNCHANGED <<prim, vec, weather_data, clock, context, suggestions,
                   top_n, results>>

\* engine.get_top_by_subcategory(context, top_n=n)
GetTopBySubcategory(n) ==
    /\ pc = "load"
    /\ pc' = "done"
    /\ scored_items' = score(suggestions, context)
    /\ top_n' = n
    /\ results' = top_by_subcategory(score(suggestions, context), n)
    /\ UNCHANGED <<prim, vec, weather_data, clock, context, suggestions>>

NextScore ==
    \/ \E files \in Directories : LoadData(files)
    \/ Score
    \/ \E n \in 0..MaxTopN : GetTopBySubcategory(n)

SpecScore == InitScore /\ [][NextScore]_vars

----------------------------------------------------------------------------
(* Claims on the fuzzy primitives (SpecFuzzy)                              *)

InUnit(x) == RLe(Zero, x) /\ RLe(x, One)

\* C5: for current in [0,1] and increment >= 0, add_with_diminishing returns
\* a value >= current that stays within [0,1].  (The claim's last clause,
\* a result strictly below 1.0 unless current is 1.0 and the increment 0,
\* asks for more than this, and is C5_AddStrictlyBelowOne.)
C5_AddStaysInRange ==
    (prim.fn = "add_with_diminishing" /\ InUnit(prim.current)
        /\ RLe(Zero, prim.amount))
    => /\ RLe(prim.current, prim.result)
       /\ InUnit(prim.result)

\* The last clause of C5 on its own
C5_AddStrictlyBelowOne ==
    (prim.fn = "add_with_diminishing" /\ InUnit(prim.current)
        /\ RLe(Zero, prim.amount))
    => (RLt(prim.result, One) \/ (prim.current = One /\ prim.amount = Zero))

\* C6: for current in [0,1] and decrement >= 0, subtract_with_diminishing
\* returns a value <= current and >= 0.0.
C6_SubtractStaysInRange ==
    (prim.fn = "subtract_with_diminishing" /\ InUnit(prim.current)
        /\ RLe(Zero, prim.amount))
    => /\ RLe(prim.result, prim.current)
       /\ RLe(Zero, prim.result)

----------------------------------------------------------------------------
(* Claims on the vectorizers (SpecVectorize)                               *)

\* the effective temperature of a vectorize_temp call's arguments
EffectiveOf(arg) == RAdd(RMul(R(7, 10), arg[2]), RMul(R(3, 10), arg[1]))

\* C7: of two vectorize_temp calls with effective temperatures e1 <= e2, the
\* second has temp_extreme_cold no larger, and, when both are above 35 C
\* (the center of the temp_hot band), temp_hot no smaller.
C7_TempMonotonic ==
    [][(vec.fn = "vectorize_temp" /\ vec'.fn = "vectorize_temp"
          /\ RLe(EffectiveOf(vec.arg), EffectiveOf(vec'.arg)))
       => /\ RLe(vec'.result[<<"temp", "extreme", "cold">>],
                 vec.result[<<"temp", "extreme", "cold">>])
          /\ (RLt(I(35), EffectiveOf(vec.arg)) /\ RLt(I(35), EffectiveOf(vec'.arg))
              => RLe(vec.result[<<"temp", "hot">>], vec'.result[<<"temp", "hot">>]))
      ]_vars

\* The time features, each with the hour of its anchor
TimeAnchors ==
    { <<<<"time", "late", "night">>, 0>>, <<<<"time", "early", "morning">>, 5>>,
      <<<<"time", "morning">>, 9>>, <<<<"time", "afternoon">>, 14>>,
      <<<<"time", "evening">>, 19>>, <<<<"time", "night">>, 22>> }

\* min(|h - c|, 24 - |h - c|) / 12
CircularDistance(h, c) ==
    LET d == RAbs(RSub(h, I(c)))
    IN IF RLe(d, RSub(I(24), d)) THEN RDiv(d, I(12)) ELSE RDiv(RSub(I(24), d), I(12))

\* C9: every time_* activation depends only on the circular distance of the
\* hour to the feature's anchor (two hours at the same circular distance
\* get the same activation), and for 0 <= d < 1.8 the hours d and 24 - d
\* both get the time_late_night activation 1 - d/1.8 > 0.
C9_TimeWraps ==
    vec.fn = "vectorize"
    => LET h == vec.arg[1]
           late == <<"time", "late", "night">>
           d == IF RLe(h, I(12)) THEN h ELSE RSub(I(24), h)
       IN /\ \A a \in TimeAnchors : \A h2 \in Hours :
                 CircularDistance(h2, a[2]) = CircularDistance(h, a[2])
                 => vectorize(h2)[a[1]] = vec.result[a[1]]
          /\ RLt(d, R(18, 10))
             => /\ vec.result[late] = RSub(One, RDiv(d, R(18, 10)))
                /\ RLt(Zero, vec.result[late])
                /\ vectorize(RSub(I(24), h))[late] = vec.result[late]

\* C9: hour 23.9 was vectorized and time_late_night is high
C9_Witness ==
    /\ vec.fn = "vectorize"
    /\ vec.arg = <<R(239, 10)>>
    /\ RLt(R(9, 10), vec.result[<<"time", "late", "night">>])

----------------------------------------------------------------------------
(* Claims on ContextBuilder.build (SpecBuild)                              *)

TimeKeys == {a[1] : a \in TimeAnchors}
TempKeys == {<<"temp", "extreme", "cold">>, <<"temp", "cold">>, <<"temp", "cool">>,
             <<"temp", "warm">>, <<"temp", "hot">>}

\* build has returned for the dummy record at 14:00 on a day that is not
\* the weekend day
DefaultCase ==
    /\ pc = "load"
    /\ weather_data = DummyWeather
    /\ clock.current_hour = I(14)
    /\ clock.weekday # 4

\* weather_clear is 1.0, time_afternoon exceeds every other time feature and
\* temp_warm every other temp feature
DefaultDominants ==
    /\ context[<<"weather", "clear">>] = One
    /\ \A k \in TimeKeys \ {<<"time", "afternoon">>} :
           RLt(context[k], context[<<"time", "afternoon">>])
    /\ \A k \in TempKeys \ {<<"temp", "warm">>} :
           RLt(context[k], context[<<"temp", "warm">>])

\* C8, as amended: in the default case weather_clear = 1.0, time_afternoon is
\* the strictly largest time feature, temp_warm is the strictly largest temp
\* feature, and temp_warm is 0.5, half of its peak.
C8_DefaultContext ==
    DefaultCase => (DefaultDominants /\ context[<<"temp", "warm">>] = R(1, 2))

\* C8 as stated: ... and temp_warm has a value near its peak of 1.0, read
\* in the weakest way: nearer to 1.0 than to 0.0.
C8_WarmNearPeak ==
    DefaultCase => (DefaultDominants /\ RLt(R(1, 2), context[<<"temp", "warm">>]))

\* C8: build has returned in the default case
C8_Witness == DefaultCase /\ clock.weekday = 3 /\ DOMAIN context # {}

\* C10: the twelve partial maps of build have pairwise disjoint key sets,
\* every key of the context vector returned carries the value of the map
\* that produced it, and the keys returned are exactly FEATURE_NAMES.
C10_MergeKeepsEveryValue ==
    pc = "load"
    => LET maps == partial_maps(weather_data, clock)
       IN /\ Len(maps) = 12
          /\ \A i \in DOMAIN maps : \A j \in DOMAIN maps :
                 i # j => DOMAIN maps[i] \cap DOMAIN maps[j] = {}
          /\ \A i \in DOMAIN maps : \A k \in DOMAIN maps[i] :
                 k \in DOMAIN context /\ context[k] = maps[i][k]
          /\ DOMAIN context = {FEATURE_NAMES[i] : i \in DOMAIN FEATURE_NAMES}

\* C10: build has returned for heavy rain in the evening of the weekend
\* day, with the mood, social and location maps pushed off their baselines
C10_Witness ==
    /\ pc = "load"
    /\ weather_data.weather_code = 65
    /\ clock.weekday = 4
    /\ clock.current_hour = I(19)
    /\ RLt(R(5, 10), context[<<"location", "indoor">>])
    /\ RLt(R(2, 10), context[<<"mood", "calm">>])
    /\ RLt(R(1, 10), context[<<"social", "family">>])
    /\ context[<<"energy", "high">>] = R(2, 10)

----------------------------------------------------------------------------
(* Claims on SuggestionEngine (SpecScore)                                  *)

\* how many entries of a sequence equal x
Count(seq, x) == Cardinality({i \in DOMAIN seq : seq[i] = x})

\* the preference vector of a suggestion, empty when it has none
PrefsOf(item) ==
    IF "preferencesJson" \in DOMAIN item THEN item["preferencesJson"] ELSE EmptyDict

\* the activation of a feature, 0.0 when the context does not have it
Activation(ctx, f) == IF f \in DOMAIN ctx THEN ctx[f] ELSE Zero

\* some entry has a value <= -9.0 on a feature with activation > 0.1
VetoCondition(item, ctx) ==
    \E f \in DOMAIN PrefsOf(item) :
        /\ RLe(PrefsOf(item)[f], I(0 - 9))
        /\ RLt(R(1, 10), Activation(ctx, f))

\* the suggestions of the scored items, in their order
ScoredSuggestions == [i \in DOMAIN scored_items |-> scored_items[i][2]]

\* score has returned, on its own or inside get_top_by_subcategory
ScoreReturned == pc \in {"scored", "done"}

RECURSIVE WeightedSum(_, _, _)
WeightedSum(features, prefs, ctx) ==
    IF features = {} THEN Zero
    ELSE LET f == CHOOSE x \in features : TRUE
         IN RAdd(RMul(RMul(group_weight(f), prefs[f]), ctx[f]),
                 WeightedSum(features \ {f}, prefs, ctx))

\* the entries that count: the feature is in the context, activation > 0.0
ActiveFeatures(item, ctx) ==
    {f \in DOMAIN PrefsOf(item) : f \in DOMAIN ctx /\ RLt(Zero, ctx[f])}

ExpectedScore(item, ctx) == WeightedSum(ActiveFeatures(item, ctx), PrefsOf(item), ctx)

\* C3: the score emitted with a suggestion is the sum of
\* group_weight * preference * activation over exactly the entries whose
\* feature is in the context with activation > 0.0, and a suggestion that
\* is not vetoed is emitted whatever the sign of its total.
C3_ScoreIsWeightedSum ==
    ScoreReturned
    => /\ \A i \in DOMAIN scored_items :
              scored_items[i][1] = ExpectedScore(scored_items[i][2], context)
       /\ \A i \in DOMAIN suggestions :
              ~VetoCondition(suggestions[i], context)
              => \E j \in DOMAIN scored_items : scored_items[j][2] = suggestions[i]

\* C3: a suggestion is emitted with a negative total, and one with total 0
\* whose entries sit on a feature with negative activation and on a feature
\* the context does not have
C3_Witness ==
    /\ ScoreReturned
    /\ RLt(Activation(context, FHot), Zero)
    /\ FCustom \notin DOMAIN context
    /\ \E i \in DOMAIN scored_items : scored_items[i] = <<Zero, ItemCustom>>
    /\ \E i \in DOMAIN scored_items : RLt(scored_items[i][1], Zero)

\* "category > subcategory", "Unknown" for a missing one
KeyOf(item) ==
    (IF "category" \in DOMAIN item THEN item["category"] ELSE "Unknown")
    \o " > " \o
    (IF "subcategory" \in DOMAIN item THEN item["subcategory"] ELSE "Unknown")

\* the (score, suggestion) pairs of the suggestions of a key not vetoed
GroupPairs(key) ==
    LET kept == SelectSeq(suggestions,
                    LAMBDA x : KeyOf(x) = key /\ ~VetoCondition(x, context))
    IN [i \in DOMAIN kept |-> <<ExpectedScore(kept[i], context), kept[i]>>]

GroupKeys ==
    {KeyOf(suggestions[i]) :
        i \in {j \in DOMAIN suggestions : ~VetoCondition(suggestions[j], context)}}

\* C2: get_top_by_subcategory returns, for exactly the keys that have a
\* suggestion not vetoed, min(top_n, size of the group) scored suggestions of
\* the group, in non-increasing order of score, and no scored suggestion of
\* the group it leaves out has a score above one it returns.
C2_TopNPerGroup ==
    pc = "done"
    => /\ DOMAIN results = GroupKeys
       /\ \A key \in GroupKeys :
              LET group == GroupPairs(key)
                  r == results[key]
              IN /\ Len(r) = IF top_n < Len(group) THEN top_n ELSE Len(group)
                 /\ \A i \in DOMAIN r : \A j \in DOMAIN r :
                        i < j => RLe(r[j][1], r[i][1])
                 /\ \A i \in DOMAIN r : Count(r, r[i]) <= Count(group, r[i])
                 /\ \A i \in DOMAIN group :
                        Count(r, group[i]) < Count(group, group[i])
                        => \A j \in DOMAIN r : ~RLt(r[j][1], group[i][1])

\* C2: five suggestions of "A > B" with five different scores, top_n = 3,
\* and the three returned are the ones scored 4.19, 4 and 3
C2_Witness ==
    /\ pc = "done"
    /\ top_n = 3
    /\ Len(GroupPairs("A > B")) = 5
    /\ Cardinality({GroupPairs("A > B")[i][1] : i \in 1..5}) = 5
    /\ results["A > B"] = << <<R(419, 100), ItemVetoEdge>>, <<I(4), ItemHot>>,
                             <<I(3), ItemEvent>> >>

\* the groups of GROUP_WEIGHTS whose name, followed by an underscore,
\* prefixes the identifier
MatchingGroups(f) ==
    {i \in DOMAIN GROUP_WEIGHTS :
        Len(f) >= 2 /\ f[1] = GROUP_WEIGHTS[i][1]}

\* the catalog features among the entries score has weighted
WeightedCatalogFeatures ==
    {f \in {FEATURE_NAMES[i] : i \in DOMAIN FEATURE_NAMES} :
        \E j \in DOMAIN scored_items : f \in ActiveFeatures(scored_items[j][2], context)}

\* C4: every catalog feature belongs to exactly one group of the weight
\* table under the prefix rule, with a weight in (0,1], so that score never
\* applies the default weight to a catalog feature; stated of the catalog
\* features score has weighted.
C4_CatalogFeaturesGrouped ==
    ScoreReturned
    => \A f \in WeightedCatalogFeatures :
           /\ Cardinality(MatchingGroups(f)) = 1
           /\ \A i \in MatchingGroups(f) :
                  /\ RLt(Zero, GROUP_WEIGHTS[i][2])
                  /\ RLe(GROUP_WEIGHTS[i][2], One)
                  /\ group_weight(f) = GROUP_WEIGHTS[i][2]

----------------------------------------------------------------------------
(* Further claims on ContextBuilder.build (SpecBuild)                      *)

\* C11: whatever the observation record (values out of range included), the
\* hour, the month and the weekday, every value of the context vector build
\* returns lies in [0,1].
C11_ContextInUnitRange ==
    pc = "load"
    => \A k \in DOMAIN context :
           RLe(Zero, context[k]) /\ RLe(context[k], One)

\* C11: build has returned for a record out of range in temperature,
\* humidity and wind, in heavy rain late at night, where mood_calm and
\* mood_thoughtful are pushed twice and energy_very_low by 0.6
C11_Witness ==
    /\ pc = "load"
    /\ RLt(I(40), effective_temp(weather_data.temperature_2m,
                                 weather_data.apparent_temperature))
    /\ weather_data.relative_humidity_2m = I(120)
    /\ weather_data.wind_speed_10m = I(200)
    /\ weather_data.weather_code = 65
    /\ clock.current_hour = R(1, 2)
    /\ context[<<"mood", "calm">>] = R(1703, 3125)
    /\ context[<<"mood", "thoughtful">>] = R(43831, 100000)
    /\ context[<<"energy", "very", "low">>] = R(67, 125)
    /\ context[<<"temp", "hot">>] = R(1, 2)

\* the two branches of infer_location, read off the context vector
BadWeather ==
    \/ RLt(R(5, 10), context[<<"weather", "rain">>])
    \/ RLt(R(5, 10), context[<<"weather", "snow">>])
    \/ RLt(R(5, 10), context[<<"weather", "thunderstorm">>])

GoodWeather ==
    /\ RLt(R(7, 10), context[<<"weather", "clear">>])
    /\ RLt(R(5, 10), context[<<"wind", "calm">>])

\* C12: with the weather features of vectorize_code the two branches of
\* infer_location never both fire; location_outdoor is 0.5 when neither
\* fires, 0.5 - 0.5*0.5*0.7 in bad weather and 0.5 + 0.4*0.5*0.7 in good
\* weather, and location_indoor and location_home leave their baselines
\* 0.5 and 0.3 only in bad weather.
C12_LocationPushedOnce ==
    pc = "load"
    => /\ ~(BadWeather /\ GoodWeather)
       /\ context[<<"location", "outdoor">>] =
              IF BadWeather
              THEN RSub(R(5, 10), RMul(RMul(R(5, 10), R(5, 10)), R(7, 10)))
              ELSE IF GoodWeather
              THEN RAdd(R(5, 10), RMul(RMul(R(4, 10), R(5, 10)), R(7, 10)))
              ELSE R(5, 10)
       /\ ~BadWeather
          => /\ context[<<"location", "indoor">>] = R(5, 10)
             /\ context[<<"location", "home">>] = R(3, 10)
       /\ BadWeather
          => /\ context[<<"location", "indoor">>] # R(5, 10)
             /\ context[<<"location", "home">>] # R(3, 10)

\* C12: build has returned for heavy rain in calm wind: the bad-weather
\* branch alone has fired although wind_calm is above 0.5
C12_Witness ==
    /\ pc = "load"
    /\ weather_data.weather_code = 65
    /\ RLt(R(5, 10), context[<<"wind", "calm">>])
    /\ BadWeather
    /\ context[<<"location", "outdoor">>] = R(13, 40)

\* C12: build has returned for a clear sky in calm wind: the good-weather
\* branch alone has fired
C12_GoodWeatherReached ==
    /\ pc = "load"
    /\ GoodWeather
    /\ context[<<"location", "outdoor">>] = R(16, 25)

====
